---- MODULE Spec2Model ----
(***************************************************************************)
(* Model of src/webhooks.ts: the webhook receiver of the stream worker.    *)
(*                                                                         *)
(* Strings are sequences of one-character strings, so that the header      *)
(* pattern, String.split, the hex encoding of the digest and JSON.parse /  *)
(* JSON.stringify are computed, not assumed.  Every `await` of the source  *)
(* on a shared store or on a collaborator is one action; the synchronous   *)
(* code up to the next such await belongs to the same action.              *)
(***************************************************************************)
EXTENDS Integers, Sequences, FiniteSets, TLC

(***************************************************************************)
(* Bounds of the model.                                                    *)
(***************************************************************************)
\* Number of requests that arrive in one behaviour.
MaxReq == 2
\* Number of I/O failures (a rejected store or collaborator call) injected
\* in one behaviour.
MaxFail == 1

(***************************************************************************)
(* Characters and strings.                                                 *)
(***************************************************************************)
\* JavaScript's null / an absent header: a value no string of characters
\* equals (its only element is not a character).
NULL == <<"null">>

Digits == {"0", "1", "2", "3", "4", "5", "6", "7", "8", "9"}

Lower == {"a", "b", "c", "d", "e", "f", "g", "h", "i", "j", "k", "l", "m",
          "n", "o", "p", "q", "r", "s", "t", "u", "v", "w", "x", "y", "z"}

\* \w of the header pattern, over the characters the model uses.
WordChars == Digits \cup Lower \cup {"_"}

HexChars == <<"0", "1", "2", "3", "4", "5", "6", "7",
              "8", "9", "a", "b", "c", "d", "e", "f">>

\* c.charCodeAt(0) for the characters the model uses.
CharCode(c) ==
    CASE c = "0" -> 48 [] c = "1" -> 49 [] c = "2" -> 50 [] c = "3" -> 51
      [] c = "," -> 44 [] c = "-" -> 45 [] c = "." -> 46 [] c = "=" -> 61
      [] c = "[" -> 91 [] c = "]" -> 93 [] c = "_" -> 95
      [] c = "a" -> 97 [] c = "b" -> 98 [] c = "e" -> 101 [] c = "j" -> 106
      [] c = "k" -> 107 [] c = "u" -> 117 [] c = "z" -> 122
      [] c = "{" -> 123 [] c = "}" -> 125
      [] OTHER -> 63

\* [...str].map(c => c.charCodeAt(0))
getUtf8Bytes(str) == [i \in 1..Len(str) |-> CharCode(str[i])]

\* String.prototype.split for a one-character separator: the segments
\* between the separators, in order.
RECURSIVE SplitFrom(_, _, _, _)
SplitFrom(s, sep, i, cur) ==
    IF i > Len(s) THEN <<cur>>
    ELSE IF s[i] = sep THEN <<cur>> \o SplitFrom(s, sep, i + 1, <<>>)
    ELSE SplitFrom(s, sep, i + 1, Append(cur, s[i]))

Split(s, sep) == SplitFrom(s, sep, 1, <<>>)

\* a[1] of a JavaScript array: undefined (here NULL) past its end.
Second(a) == IF Len(a) >= 2 THEN a[2] ELSE NULL

(***************************************************************************)
(* Signature Verifier: checkSignature.                                     *)
(***************************************************************************)
\* crypto.subtle.sign("HMAC", key, message) with SHA-256.  The 32-byte
\* digest is modelled by one byte: a keyed fold over the key bytes followed
\* by the message bytes, so that it depends on the key, on every byte of the
\* message and on their order.
RECURSIVE Fold(_, _, _)
Fold(bytes, i, h) ==
    IF i > Len(bytes) THEN h
    ELSE Fold(bytes, i + 1, (h * 33 + bytes[i]) % 256)

HmacSha256(keyBytes, messageBytes) ==
    <<Fold(messageBytes, 1, Fold(keyBytes, 1, 7))>>

\* Number.prototype.toString(16): lowercase, no leading zeros.
RECURSIVE ToString16(_)
ToString16(n) ==
    IF n < 16 THEN <<HexChars[n + 1]>>
    ELSE ToString16(n \div 16) \o <<HexChars[(n % 16) + 1]>>

\* String.prototype.padStart(2, "0")
PadStart2(s) == IF Len(s) < 2 THEN <<"0">> \o s ELSE s

\* [...new Uint8Array(sig)].map(b => b.toString(16).padStart(2, "0")).join("")
RECURSIVE HexEncodeFrom(_, _)
HexEncodeFrom(bytes, i) ==
    IF i > Len(bytes) THEN <<>>
    ELSE PadStart2(ToString16(bytes[i])) \o HexEncodeFrom(bytes, i + 1)

HexEncode(bytes) == HexEncodeFrom(bytes, 1)

\* The lowercase hex HMAC of a message under a secret.
HmacHex(message, secret) ==
    HexEncode(HmacSha256(getUtf8Bytes(secret), getUtf8Bytes(message)))

\* Mutant: the result of checkSignature used without await (a Promise is
\* truthy).
checkSignatureNoAwait(message, signature, secret) == TRUE

checkSignature(message, signature, secret) ==
    signature = HmacHex(message, secret)

(***************************************************************************)
(* Webhook Envelope Parser: the header pattern and the split.              *)
(***************************************************************************)
TimePrefix == <<"t", "i", "m", "e", "=">>
SigPrefix == <<",", "s", "i", "g", "1", "=">>

AllIn(s, from, to, chars) == \A i \in from..to : s[i] \in chars

\* Mutant: the pattern /^time=\d+,sig1=[0-9a-f]+$/.
MatchesHexHeaderPattern(h) ==
    \E k \in 6..Len(h) :
        /\ SubSeq(h, 1, 5) = TimePrefix
        /\ AllIn(h, 6, k, Digits)
        /\ k + 7 <= Len(h)
        /\ SubSeq(h, k + 1, k + 6) = SigPrefix
        /\ AllIn(h, k + 7, Len(h), {HexChars[i] : i \in 1..16})

\* signatureHeader.match(/^time=\d+,sig1=\w+$/): k is the last digit of the
\* time component.
MatchesHeaderPattern(h) ==
    \E k \in 6..Len(h) :
        /\ SubSeq(h, 1, 5) = TimePrefix
        /\ AllIn(h, 6, k, Digits)
        /\ k + 7 <= Len(h)
        /\ SubSeq(h, k + 1, k + 6) = SigPrefix
        /\ AllIn(h, k + 7, Len(h), WordChars)

\* signatureHeader.split(",").map(s => s.split("=")[1]): [time, signature]
HeaderFields(h) ==
    LET parts == Split(h, ",")
    IN  [i \in 1..Len(parts) |-> Second(Split(parts[i], "="))]

\* const [time, signature] = ...: undefined (here NULL) for a missing element
HeaderTime(h) == IF Len(HeaderFields(h)) >= 1 THEN HeaderFields(h)[1] ELSE NULL
HeaderSignature(h) == Second(HeaderFields(h))

\* `${time}.${body}`
SignedMessage(time, body) == time \o <<".">> \o body

(***************************************************************************)
(* JSON values.  An object is named by one letter and written {x}; an      *)
(* array of objects is written [{x},{y}].                                  *)
(*   a, b : ready videos whose meta.name lacks the feature tag             *)
(*   j    : a ready video whose meta.name contains "jkot-stream"           *)
(*   e    : a video in the error state, no feature tag                     *)
(*   u    : a first-login event {uid, email}: it has no meta               *)
(***************************************************************************)
Videos == {"a", "b", "j", "e"}
Objects == Videos \cup {"u"}

HasMeta(v) == v \in Videos
\* video.meta.name.includes("jkot-stream")
NameIncludesTag(v) == v = "j"
\* video.status.state === "ready"
IsReady(v) == v \in {"a", "b", "j"}

StringifyObject(v) == <<"{", v, "}">>

RECURSIVE JoinObjects(_, _)
JoinObjects(arr, i) ==
    IF i > Len(arr) THEN <<>>
    ELSE (IF i > 1 THEN <<",">> ELSE <<>>)
         \o StringifyObject(arr[i]) \o JoinObjects(arr, i + 1)

\* JSON.stringify of an array of objects
StringifyArray(arr) == <<"[">> \o JoinObjects(arr, 1) \o <<"]">>

\* JSON.stringify of `latest`: an array of objects, or null
Stringify(latest) ==
    IF latest = NULL THEN <<"n", "u", "l", "l">> ELSE StringifyArray(latest)

IsObjectText(t) ==
    Len(t) = 3 /\ t[1] = "{" /\ t[3] = "}" /\ t[2] \in Objects

ArrayItems(t) ==
    IF Len(t) = 2 THEN <<>> ELSE Split(SubSeq(t, 2, Len(t) - 1), ",")

IsArrayText(t) ==
    /\ Len(t) >= 2
    /\ t[1] = "[" /\ t[Len(t)] = "]"
    /\ \A i \in 1..Len(ArrayItems(t)) : IsObjectText(ArrayItems(t)[i])

\* JSON.parse throws a SyntaxError on any other text.
IsJSON(t) == IsObjectText(t) \/ IsArrayText(t)

ParseObject(t) == t[2]
ParseArray(t) == [i \in 1..Len(ArrayItems(t)) |-> ParseObject(ArrayItems(t)[i])]

(***************************************************************************)
(* Environment: secrets, the upstream video provider, the key-value        *)
(* stores.                                                                 *)
(***************************************************************************)
STREAM_WEBHOOK_SECRET == <<"k", "1">>
AUTH0_WEBHOOK_SECRET == <<"k", "2">>

\* Mutant: both routes are given the secret of the video provider.
SecretOfStreamOnly(route) == STREAM_WEBHOOK_SECRET

\* The per-route secret selectors given to withValidBody.
Secret(route) ==
    IF route = "stream" THEN STREAM_WEBHOOK_SECRET ELSE AUTH0_WEBHOOK_SECRET

\* limit of the rehydration call of updateVideos
LatestLimit == 10

\* The options of the two fetchVideos calls; limit 0 and status/search ""
\* are an option left out.
LatestOptions == [limit |-> LatestLimit, status |-> "ready", search |-> ""]
JkotOptions == [limit |-> 0, status |-> "ready", search |-> "jkot-stream"]

\* What the provider may hold when it is asked: its videos, newest first.
UpstreamCatalogs == {<<"e">>, <<"j", "e", "b">>}

\* Line 159: fetchVideos returns the JSON of whatever the provider answers,
\* of any status.  The envelope of an answer that reports an error
\* (success: false, errors: [...]) has the result null.
ErrorResult == NULL

RECURSIVE Filter(_, _, _)
Filter(seq, i, opt) ==
    IF i > Len(seq) THEN <<>>
    ELSE (IF /\ (opt.status = "ready" => IsReady(seq[i]))
             /\ (opt.search = "jkot-stream" => NameIncludesTag(seq[i]))
          THEN <<seq[i]>> ELSE <<>>) \o Filter(seq, i + 1, opt)

Take(seq, n) == IF Len(seq) > n THEN SubSeq(seq, 1, n) ELSE seq

\* The `result` of GET /accounts/{id}/stream?limit&status&search on a
\* provider holding `catalog`.
FetchResult(catalog, opt) ==
    LET hits == Filter(catalog, 1, opt)
    IN  IF opt.limit > 0 THEN Take(hits, opt.limit) ELSE hits

\* KVNamespace.get: null for a key that was never put.
KvGet(kv, key) == IF key \in DOMAIN kv THEN kv[key] ELSE NULL

\* KVNamespace.put
KvPut(kv, key, val) ==
    [k \in DOMAIN kv \cup {key} |-> IF k = key THEN val ELSE kv[k]]

EmptyKv == [k \in {} |-> NULL]

\* if (stored): null and the empty string are falsy.
Truthy(stored) == stored # NULL /\ stored # <<>>

(***************************************************************************)
(* Inputs: the deliveries that arrive.                                     *)
(***************************************************************************)
Routes == {"stream", "auth0"}

BodyPlain == StringifyObject("a")
BodyJkot == StringifyObject("j")
BodyUser == StringifyObject("u")
\* not JSON
BodyBad == <<"{", "a">>

Bodies == {BodyPlain, BodyJkot, BodyUser, BodyBad}

Times == {<<"1">>}

MkHeader(time, sig) == TimePrefix \o time \o SigPrefix \o sig

\* The header a provider holding `secret` sends with `body` at `time`.
Sign(secret, time, body) ==
    MkHeader(time, HmacHex(SignedMessage(time, body), secret))

SignedHeaders ==
    {Sign(Secret(rt), t, b) : rt \in Routes, t \in Times, b \in Bodies}

\* time=1 (no sig1 segment), sig1=ab (no time segment), time=1,sig1=a-b
\* (not word characters), time=123,sig1=zz (word characters, not hexadecimal)
HeaderNoSig == TimePrefix \o <<"1">>
HeaderNoTime == <<"s", "i", "g", "1", "=", "a", "b">>
HeaderNotWord == MkHeader(<<"1">>, <<"a", "-", "b">>)
HeaderNonHex == MkHeader(<<"1", "2", "3">>, <<"z", "z">>)

Headers ==
    {NULL, HeaderNoSig, HeaderNoTime, HeaderNotWord, HeaderNonHex}
        \cup SignedHeaders

\* The deliveries of a worker that has been running for a while: a video
\* may have ended in the error state, the video provider delivers a video
\* again under a later time, and callers ask for methods and paths of any
\* kind.
BodyError == StringifyObject("e")

StreamBodies == {BodyPlain, BodyJkot, BodyError}

LaterTime == <<"2">>

\* <<header, body>> as the two providers send them.
ProviderDeliveries ==
    {<<Sign(STREAM_WEBHOOK_SECRET, <<"1">>, b), b>> : b \in StreamBodies}
        \cup {<<Sign(STREAM_WEBHOOK_SECRET, LaterTime, BodyPlain), BodyPlain>>}
        \cup {<<Sign(AUTH0_WEBHOOK_SECRET, <<"1">>, BodyUser), BodyUser>>}

Methods == {"POST", "GET"}

Paths == {"/stream", "/auth0/stream-worker", "/other"}

\* Lines 234-235: the two routes of the router; "none" when neither matches.
RouteOf(method, path) ==
    IF method = "POST" /\ path = "/stream" THEN "stream"
    ELSE IF method = "POST" /\ path = "/auth0/stream-worker" THEN "auth0"
    ELSE "none"

AllHeaders == Headers \cup {d[1] : d \in ProviderDeliveries}

AllBodies == Bodies \cup {d[2] : d \in ProviderDeliveries}

(***************************************************************************)
(* State.                                                                  *)
(***************************************************************************)
VARIABLES
    WEBHOOKS_KV,   \* the idempotency store: header |-> raw body
    VIDEOS_KV,     \* "latest" |-> the catalog cache (JSON text)
    CACHE_KV,      \* "videos" |-> the feature cache (JSON text)
    reqs,          \* the requests received so far, in order of arrival
    actors,        \* the POST /new requests the storage actors received
    nextId,        \* the next identifier USER_DO.newUniqueId hands out
    fails          \* the I/O failures injected so far

vars == <<WEBHOOKS_KV, VIDEOS_KV, CACHE_KV, reqs, actors, nextId, fails>>

Entry(op, val) == [op |-> op, val |-> val]

\* A request at fetch entry.  pc is the await of withValidBody the request
\* is suspended at; a and b are those of updateVideos and updateJKOT.  held
\* and log are history: whether the idempotency store held the header when
\* the request arrived, and what the request did so far.
NewRequest(route, header, body, held) ==
    [route |-> route, header |-> header, body |-> body, held |-> held,
     pc |-> "recv", outcome |-> "none", status |-> 0,
     handlerStatus |-> 0, video |-> "-",
     a |-> "idle", aLatest |-> <<>>,
     b |-> "idle", bLatest |-> <<>>,
     log |-> <<>>]

Respond(rec, status) ==
    [rec EXCEPT !.pc = "done", !.outcome = "response", !.status = status,
                !.log = Append(@, Entry("respond", NULL))]

\* An exception no code of the worker catches: the promise of the fetch
\* handler rejects and the caller gets no Response of the worker's making.
Throw(rec) ==
    [rec EXCEPT !.pc = "done", !.outcome = "exception",
                !.log = Append(@, Entry("throw", NULL))]

Logged(rec, op, val) == [rec EXCEPT !.log = Append(@, Entry(op, val))]

Init ==
    /\ WEBHOOKS_KV = EmptyKv
    /\ VIDEOS_KV = EmptyKv
    /\ CACHE_KV = EmptyKv
    /\ reqs = <<>>
    /\ actors = <<>>
    /\ nextId = 1
    /\ fails = 0

CanFail == fails < MaxFail

(***************************************************************************)
(* withValidBody                                                           *)
(***************************************************************************)
\* Mutant: only the absent header is rejected.
CheckHeaderNullOnly(rec) ==
    IF rec.header = NULL THEN Respond(rec, 422)
    ELSE [rec EXCEPT !.pc = "kv_get"]

\* Lines 105-114: the header checks, up to the read of the idempotency
\* store being issued.
CheckHeader(rec) ==
    IF rec.header = NULL THEN Respond(rec, 422)
    ELSE IF ~MatchesHeaderPattern(rec.header) THEN Respond(rec, 422)
    ELSE [rec EXCEPT !.pc = "kv_get"]

Arrive ==
    /\ Len(reqs) < MaxReq
    /\ \E route \in Routes, header \in Headers, body \in Bodies :
           reqs' = Append(reqs, CheckHeader(
                       NewRequest(route, header, body,
                                  KvGet(WEBHOOKS_KV, header) # NULL)))
    /\ UNCHANGED <<WEBHOOKS_KV, VIDEOS_KV, CACHE_KV, actors, nextId, fails>>

\* Mutant: the handler catches the rejection and returns a 500 of its own,
\* which withValidBody records like any response.
SettleAllCaught(rec) ==
    IF rec.pc # "handler" THEN rec
    ELSE IF rec.a = "failed" \/ rec.b = "failed"
         THEN [rec EXCEPT !.pc = "kv_put", !.handlerStatus = 500,
                          !.log = Append(@, Entry("handler_end", NULL))]
    ELSE IF rec.a = "ok" /\ rec.b = "ok"
         THEN [rec EXCEPT !.pc = "kv_put", !.handlerStatus = 200,
                          !.log = Append(@, Entry("handler_end", NULL))]
    ELSE rec

\* Promise.all([updateVideos(), updateJKOT()]) followed by the return of
\* Response("ok"): rejected as soon as one of the two is, fulfilled when
\* both are.  A request that already ended stays as it is.
SettleAll(rec) ==
    IF rec.pc # "handler" THEN rec
    ELSE IF rec.a = "failed" \/ rec.b = "failed" THEN Throw(rec)
    ELSE IF rec.a = "ok" /\ rec.b = "ok"
         THEN [rec EXCEPT !.pc = "kv_put", !.handlerStatus = 200,
                          !.log = Append(@, Entry("handler_end", NULL))]
    ELSE rec

\* Mutant: updateJKOT without the test of the feature tag.
StartJKOTNoTagTest(video) ==
    IF ~HasMeta(video) THEN "failed" ELSE "fetch"

\* Lines 205-208: the synchronous start of updateJKOT.  video.meta.name of
\* an object without meta is a TypeError, which rejects its promise.
StartJKOT(video) ==
    IF ~HasMeta(video) THEN "failed"
    ELSE IF ~NameIncludesTag(video) THEN "ok"
    ELSE "fetch"

\* Mutant: await updateVideos(); await updateJKOT(): the feature cache
\* update is not started while the catalog update runs.
StartStreamSequential(rec, video) ==
    [rec EXCEPT !.pc = "handler", !.video = video, !.a = "get",
                !.log = Append(@, Entry("handler", NULL))]

\* Lines 188-214: the call of the stream handler, up to its first awaits.
StartStream(rec, video) ==
    SettleAll([rec EXCEPT !.pc = "handler", !.video = video,
                          !.a = "get", !.b = StartJKOT(video),
                          !.log = Append(@, Entry("handler", NULL))])

\* Lines 222-227: the call of the provisioning handler, up to stub.fetch.
StartAuth0(rec, user) ==
    [rec EXCEPT !.pc = "forward", !.video = user,
                !.log = Append(@, Entry("handler", NULL))]

\* Lines 119-136: the signature check, JSON.parse and the call of f.
Verify(rec) ==
    LET time == HeaderTime(rec.header)
        signature == HeaderSignature(rec.header)
        message == SignedMessage(time, rec.body)
        valid == checkSignature(message, signature, Secret(rec.route))
        checked == Logged(rec, "checkSignature", NULL)
    IN  IF ~valid THEN Respond(checked, 406)
        ELSE IF ~IsJSON(rec.body) THEN Throw(Logged(checked, "parse", NULL))
        ELSE IF rec.route = "stream"
             THEN StartStream(checked, ParseObject(rec.body))
             ELSE StartAuth0(checked, ParseObject(rec.body))

\* Mutant: the signature is verified before the replay check is looked at.
AfterKvGetVerifyFirst(rec, processed) ==
    LET read == Logged(rec, "kv_get", processed)
        time == HeaderTime(rec.header)
        signature == HeaderSignature(rec.header)
        valid == checkSignature(SignedMessage(time, rec.body), signature,
                                Secret(rec.route))
    IN  IF ~valid THEN Respond(Logged(read, "checkSignature", NULL), 406)
        ELSE IF processed # NULL THEN Respond(read, 409)
        ELSE Verify(read)

\* Lines 114-117 and on: the read of the idempotency store completes.
AfterKvGet(rec, processed) ==
    LET read == Logged(rec, "kv_get", processed)
    IN  IF processed # NULL THEN Respond(read, 409) ELSE Verify(read)

ReadProcessed(r) ==
    /\ reqs[r].pc = "kv_get"
    /\ \/ /\ reqs' = [reqs EXCEPT ![r] =
                         AfterKvGet(@, KvGet(WEBHOOKS_KV, @.header))]
          /\ UNCHANGED fails
       \/ /\ CanFail
          /\ fails' = fails + 1
          /\ reqs' = [reqs EXCEPT ![r] = Throw(Logged(@, "kv_get_failed", NULL))]
    /\ UNCHANGED <<WEBHOOKS_KV, VIDEOS_KV, CACHE_KV, actors, nextId>>

\* Mutant: the handler's response is returned without the record being
\* written.
RecordNoPut(r) ==
    /\ reqs[r].pc = "kv_put"
    /\ reqs' = [reqs EXCEPT ![r] = Respond(@, @.handlerStatus)]
    /\ UNCHANGED <<WEBHOOKS_KV, VIDEOS_KV, CACHE_KV, actors, nextId, fails>>

\* Lines 137-138: the write of the idempotency record, then the return of
\* the handler's response.
Record(r) ==
    /\ reqs[r].pc = "kv_put"
    /\ \/ /\ WEBHOOKS_KV' = KvPut(WEBHOOKS_KV, reqs[r].header, reqs[r].body)
          /\ reqs' = [reqs EXCEPT ![r] =
                         Respond(Logged(@, "kv_put", @.body), @.handlerStatus)]
          /\ UNCHANGED fails
       \/ /\ CanFail
          /\ fails' = fails + 1
          /\ reqs' = [reqs EXCEPT ![r] = Throw(Logged(@, "kv_put_failed", NULL))]
          /\ UNCHANGED WEBHOOKS_KV
    /\ UNCHANGED <<VIDEOS_KV, CACHE_KV, actors, nextId>>

(***************************************************************************)
(* webhookCloudflareStream: updateVideos and updateJKOT                    *)
(***************************************************************************)
\* Mutant: a video the catalog already holds is not prepended again.
UnshiftUnlessPresent(stored, video) ==
    IF \E i \in 1..Len(ParseArray(stored)) : ParseArray(stored)[i] = video
    THEN ParseArray(stored)
    ELSE <<video>> \o ParseArray(stored)

\* Mutant: latest.push(video)
UnshiftAsPush(stored, video) == Append(ParseArray(stored), video)

\* latest = JSON.parse(stored); latest.unshift(video)
Unshift(stored, video) == <<video>> \o ParseArray(stored)

FailA(rec, op) == SettleAll([Logged(rec, op, NULL) EXCEPT !.a = "failed"])
FailB(rec, op) == SettleAll([Logged(rec, op, NULL) EXCEPT !.b = "failed"])

\* Lines 190-199: the read of "latest" completes.  JSON.parse of the text
\* null is null, and null.unshift is a TypeError, which rejects the promise
\* of updateVideos.
AfterReadLatest(rec, stored) ==
    LET read == Logged(rec, "videos_get", stored)
    IN  IF ~Truthy(stored) THEN [read EXCEPT !.a = "fetch"]
        ELSE IF ~IsArrayText(stored) THEN FailA(read, "unshift_failed")
        ELSE [read EXCEPT !.a = "put", !.aLatest = Unshift(stored, rec.video)]

ReadLatest(r) ==
    /\ reqs[r].a = "get"
    /\ \/ /\ reqs' = [reqs EXCEPT ![r] =
                         AfterReadLatest(@, KvGet(VIDEOS_KV, "latest"))]
          /\ UNCHANGED fails
       \/ /\ CanFail
          /\ fails' = fails + 1
          /\ reqs' = [reqs EXCEPT ![r] = FailA(@, "videos_get_failed")]
    /\ UNCHANGED <<WEBHOOKS_KV, VIDEOS_KV, CACHE_KV, actors, nextId>>

\* Lines 197-198: fetchVideos(env, {limit: 10, status: "ready"}) completes.
FetchLatest(r) ==
    /\ reqs[r].a = "fetch"
    /\ \/ /\ \E catalog \in UpstreamCatalogs :
                 LET result == FetchResult(catalog, LatestOptions)
                 IN  reqs' = [reqs EXCEPT ![r] =
                                 [Logged(@, "fetch_latest", result)
                                     EXCEPT !.a = "put", !.aLatest = result]]
          /\ UNCHANGED fails
       \/ /\ CanFail
          /\ fails' = fails + 1
          /\ reqs' = [reqs EXCEPT ![r] = FailA(@, "fetch_latest_failed")]
       \/ /\ CanFail
          /\ fails' = fails + 1
          /\ reqs' = [reqs EXCEPT ![r] =
                         [Logged(@, "fetch_latest", ErrorResult)
                             EXCEPT !.a = "put", !.aLatest = ErrorResult]]
    /\ UNCHANGED <<WEBHOOKS_KV, VIDEOS_KV, CACHE_KV, actors, nextId>>

\* Line 201: VIDEOS_KV.put("latest", JSON.stringify(latest)) completes.
WriteLatest(r) ==
    /\ reqs[r].a = "put"
    /\ \/ /\ VIDEOS_KV' =
                 KvPut(VIDEOS_KV, "latest", Stringify(reqs[r].aLatest))
          /\ reqs' = [reqs EXCEPT ![r] =
                         SettleAll([Logged(@, "videos_put",
                                           Stringify(@.aLatest))
                                       EXCEPT !.a = "ok"])]
          /\ UNCHANGED fails
       \/ /\ CanFail
          /\ fails' = fails + 1
          /\ reqs' = [reqs EXCEPT ![r] = FailA(@, "videos_put_failed")]
          /\ UNCHANGED VIDEOS_KV
    /\ UNCHANGED <<WEBHOOKS_KV, CACHE_KV, actors, nextId>>

\* Lines 207-209: fetchVideos(env, {status: "ready", search: "jkot-stream"})
\* completes.
FetchJkot(r) ==
    /\ reqs[r].b = "fetch"
    /\ \/ /\ \E catalog \in UpstreamCatalogs :
                 LET result == FetchResult(catalog, JkotOptions)
                 IN  reqs' = [reqs EXCEPT ![r] =
                                 [Logged(@, "fetch_jkot", result)
                                     EXCEPT !.b = "put", !.bLatest = result]]
          /\ UNCHANGED fails
       \/ /\ CanFail
          /\ fails' = fails + 1
          /\ reqs' = [reqs EXCEPT ![r] = FailB(@, "fetch_jkot_failed")]
       \/ /\ CanFail
          /\ fails' = fails + 1
          /\ reqs' = [reqs EXCEPT ![r] =
                         [Logged(@, "fetch_jkot", ErrorResult)
                             EXCEPT !.b = "put", !.bLatest = ErrorResult]]
    /\ UNCHANGED <<WEBHOOKS_KV, VIDEOS_KV, CACHE_KV, actors, nextId>>

\* Line 211: CACHE_KV.put("videos", JSON.stringify(latest)) completes.
WriteCache(r) ==
    /\ reqs[r].b = "put"
    /\ \/ /\ CACHE_KV' =
                 KvPut(CACHE_KV, "videos", Stringify(reqs[r].bLatest))
          /\ reqs' = [reqs EXCEPT ![r] =
                         SettleAll([Logged(@, "cache_put",
                                           Stringify(@.bLatest))
                                       EXCEPT !.b = "ok"])]
          /\ UNCHANGED fails
       \/ /\ CanFail
          /\ fails' = fails + 1
          /\ reqs' = [reqs EXCEPT ![r] = FailB(@, "cache_put_failed")]
          /\ UNCHANGED CACHE_KV
    /\ UNCHANGED <<WEBHOOKS_KV, VIDEOS_KV, actors, nextId>>

(***************************************************************************)
(* webhookAuth0StreamWorker                                                *)
(***************************************************************************)
\* What a storage actor may answer to POST /new.
ActorStatuses == {200, 500}

\* id.toString()
IdToString(id) == ToString16(id)

\* Mutant: {slug: id.name, ...user}; a unique identifier has no name.
NewActorBodySlugFromName(id, user) == [slug |-> NULL, user |-> user]

\* JSON.stringify({slug: id.toString(), ...user})
NewActorBody(id, user) == [slug |-> IdToString(id), user |-> user]

\* Lines 223-230: newUniqueId, USER_DO.get and stub.fetch; the actor's
\* response is what the handler returns.  An entry of actors is the request
\* an actor received together with the status it answered; the log keeps
\* the identifier the request was given.
Forward(r) ==
    /\ reqs[r].pc = "forward"
    /\ nextId' = nextId + 1
    /\ \/ /\ \E status \in ActorStatuses :
                 /\ reqs' = [reqs EXCEPT ![r] =
                                [Logged(@, "handler_end", IdToString(nextId))
                                    EXCEPT !.pc = "kv_put",
                                           !.handlerStatus = status]]
                 /\ actors' = Append(actors,
                                  [id |-> nextId, method |-> "POST",
                                   path |-> "/new",
                                   body |-> NewActorBody(nextId,
                                                         reqs[r].video),
                                   status |-> status])
          /\ UNCHANGED fails
       \/ /\ CanFail
          /\ fails' = fails + 1
          /\ reqs' = [reqs EXCEPT ![r] = Throw(Logged(@, "forward_failed", NULL))]
          /\ UNCHANGED actors
    /\ UNCHANGED <<WEBHOOKS_KV, VIDEOS_KV, CACHE_KV>>

(***************************************************************************)
(* Specification                                                           *)
(***************************************************************************)
\* A step of a request that is being handled.
Handle ==
    \/ \E r \in 1..Len(reqs) : ReadProcessed(r)
    \/ \E r \in 1..Len(reqs) : ReadLatest(r)
    \/ \E r \in 1..Len(reqs) : FetchLatest(r)
    \/ \E r \in 1..Len(reqs) : WriteLatest(r)
    \/ \E r \in 1..Len(reqs) : FetchJkot(r)
    \/ \E r \in 1..Len(reqs) : WriteCache(r)
    \/ \E r \in 1..Len(reqs) : Forward(r)
    \/ \E r \in 1..Len(reqs) : Record(r)

Next ==
    \/ Arrive
    \/ Handle

Spec == Init /\ [][Next]_vars

\* One delivery of each provider: a video with the feature tag, for which
\* both updates of the stream handler have calls to make, and a user.
FirstDeliveries ==
    {<<Sign(STREAM_WEBHOOK_SECRET, <<"1">>, BodyJkot), BodyJkot>>,
     <<Sign(AUTH0_WEBHOOK_SECRET, <<"1">>, BodyUser), BodyUser>>}

\* These deliveries alone, each sent to either route.
Deliver ==
    /\ Len(reqs) < MaxReq
    /\ \E route \in Routes, d \in FirstDeliveries :
           reqs' = Append(reqs, CheckHeader(
                       NewRequest(route, d[1], d[2],
                                  KvGet(WEBHOOKS_KV, d[1]) # NULL)))
    /\ UNCHANGED <<WEBHOOKS_KV, VIDEOS_KV, CACHE_KV, actors, nextId, fails>>

DeliveryNext ==
    \/ Deliver
    \/ Handle

DeliverySpec == Init /\ [][DeliveryNext]_vars

\* The steps of updateVideos and of updateJKOT of request r.
UpdateVideosStep(r) ==
    r \in 1..Len(reqs) /\ (ReadLatest(r) \/ FetchLatest(r) \/ WriteLatest(r))

UpdateJKOTStep(r) ==
    r \in 1..Len(reqs) /\ (FetchJkot(r) \/ WriteCache(r))

\* An awaited store or upstream call settles, and the event loop then runs
\* the continuation of the async function that awaits it.
Fairness ==
    \A r \in 1..MaxReq :
        WF_vars(UpdateVideosStep(r)) /\ WF_vars(UpdateJKOTStep(r))

FairSpec == DeliverySpec /\ Fairness

(***************************************************************************)
(* The worker after it has run for a while                                  *)
(***************************************************************************)
\* The catalog cache an earlier delivery left behind.
EarlierLatest == StringifyArray(<<"b">>)

\* The catalog cache is absent or was filled by an earlier delivery.
RunningInit ==
    /\ WEBHOOKS_KV = EmptyKv
    /\ VIDEOS_KV \in {EmptyKv, KvPut(EmptyKv, "latest", EarlierLatest)}
    /\ CACHE_KV = EmptyKv
    /\ reqs = <<>>
    /\ actors = <<>>
    /\ nextId = 1
    /\ fails = 0

\* Lines 234-239: router.handle.  No route is registered beyond the two,
\* so for any other method or path no handler runs and handle resolves to
\* undefined: the worker makes no Response.
Dispatch(rec) ==
    IF rec.route \in Routes THEN CheckHeader(rec)
    ELSE [rec EXCEPT !.pc = "done", !.outcome = "undefined"]

Request ==
    /\ Len(reqs) < MaxReq
    /\ \E method \in Methods, path \in Paths, d \in ProviderDeliveries :
           reqs' = Append(reqs, Dispatch(
                       NewRequest(RouteOf(method, path), d[1], d[2],
                                  KvGet(WEBHOOKS_KV, d[1]) # NULL)))
    /\ UNCHANGED <<WEBHOOKS_KV, VIDEOS_KV, CACHE_KV, actors, nextId, fails>>

RunningNext ==
    \/ Request
    \/ Handle

RunningSpec == RunningInit /\ [][RunningNext]_vars

(***************************************************************************)
(* Vocabulary of the properties.                                           *)
(***************************************************************************)
Requests == 1..Len(reqs)

Did(rec, op) == \E i \in 1..Len(rec.log) : rec.log[i].op = op

Times_(rec, op) == Cardinality({i \in 1..Len(rec.log) : rec.log[i].op = op})

\* The position of the first entry `op` of the log; 0 when there is none.
At(rec, op) ==
    IF Did(rec, op)
    THEN CHOOSE i \in 1..Len(rec.log) :
             /\ rec.log[i].op = op
             /\ \A j \in 1..(i - 1) : rec.log[j].op # op
    ELSE 0

ValueOf(rec, op) == rec.log[At(rec, op)].val

OpsOf(rec) == [i \in 1..Len(rec.log) |-> rec.log[i].op]

StoreWrites == {"kv_put", "videos_put", "cache_put"}

WroteNothing(rec) == \A i \in 1..Len(rec.log) : rec.log[i].op \notin StoreWrites

Done(rec) == rec.pc = "done"

\* A segment time=<digits> and a segment sig1=<word characters> of a
\* header split at its commas.
IsTimeSegment(seg) ==
    /\ Len(seg) > 5
    /\ SubSeq(seg, 1, 5) = TimePrefix
    /\ AllIn(seg, 6, Len(seg), Digits)

IsSigSegment(seg) ==
    /\ Len(seg) > 5
    /\ SubSeq(seg, 1, 5) = <<"s", "i", "g", "1", "=">>
    /\ AllIn(seg, 6, Len(seg), WordChars)

HasTimeSegment(h) ==
    \E i \in 1..Len(Split(h, ",")) : IsTimeSegment(Split(h, ",")[i])

HasSigSegment(h) ==
    \E i \in 1..Len(Split(h, ",")) : IsSigSegment(Split(h, ",")[i])

\* The headers that are absent or lack one of the two segments.
LacksSegmentHeaders ==
    UNION {IF h = NULL \/ ~HasTimeSegment(h) \/ ~HasSigSegment(h)
           THEN {h} ELSE {} : h \in AllHeaders}

LacksSegment(h) == h \in LacksSegmentHeaders

\* The headers that are time=<digits>,sig1=<word characters> exactly.
WellShapedHeaders ==
    UNION {IF /\ h # NULL
              /\ Len(Split(h, ",")) = 2
              /\ IsTimeSegment(Split(h, ",")[1])
              /\ IsSigSegment(Split(h, ",")[2])
           THEN {h} ELSE {} : h \in AllHeaders}

WellShaped(h) == h \in WellShapedHeaders

\* The time and the signature of a well-shaped header.
TimeOf(h) == SubSeq(Split(h, ",")[1], 6, Len(Split(h, ",")[1]))
SigOf(h) == SubSeq(Split(h, ",")[2], 6, Len(Split(h, ",")[2]))

\* The deliveries <<route, header, body>> whose sig1 equals the hex HMAC of
\* <time>.<body> under the secret of the route they are sent to.
MatchingDeliveries ==
    UNION {IF SigOf(d[2]) =
                  HmacHex(TimeOf(d[2]) \o <<".">> \o d[3],
                          IF d[1] = "stream" THEN STREAM_WEBHOOK_SECRET
                          ELSE AUTH0_WEBHOOK_SECRET)
           THEN {d} ELSE {} : d \in Routes \X WellShapedHeaders \X AllBodies}

SignatureMatches(rec) ==
    <<rec.route, rec.header, rec.body>> \in MatchingDeliveries

(***************************************************************************)
(* C1                                                                      *)
(***************************************************************************)
\* C1: for every header value, the business handler is invoked for at most
\* one of the requests that carry it.
C1_AtMostOnce ==
    \A r1, r2 \in Requests :
        /\ reqs[r1].header = reqs[r2].header
        /\ Did(reqs[r1], "handler")
        /\ Did(reqs[r2], "handler")
        => r1 = r2

(***************************************************************************)
(* C2                                                                      *)
(***************************************************************************)
BadSignature(rec) == WellShaped(rec.header) /\ ~SignatureMatches(rec)

\* C2 as stated: a request whose sig1 is not the hex HMAC of <time>.<body>
\* under its route's secret is answered 406, invokes no handler and writes
\* no store (requests whose store read was answered).
C2_Original ==
    \A r \in Requests :
        Did(reqs[r], "kv_get") /\ BadSignature(reqs[r])
        => /\ reqs[r].outcome = "response" /\ reqs[r].status = 406
           /\ ~Did(reqs[r], "handler")
           /\ WroteNothing(reqs[r])

\* C2 amended: such a request is answered 406 when the idempotency store
\* holds no entry for its header and 409 when it holds one; in both cases
\* no handler is invoked and the request writes no store, so the request
\* itself never makes its header a replay.
C2_BadSignatureRejected ==
    \A r \in Requests :
        Did(reqs[r], "kv_get") /\ BadSignature(reqs[r])
        => /\ reqs[r].outcome = "response"
           /\ reqs[r].status =
                  (IF ValueOf(reqs[r], "kv_get") = NULL THEN 406 ELSE 409)
           /\ ~Did(reqs[r], "handler")
           /\ WroteNothing(reqs[r])
           /\ (reqs[r].status = 406
                  => OpsOf(reqs[r]) = <<"kv_get", "checkSignature", "respond">>)

\* A request with a wrong signature was answered 406 and a later request
\* with the same header and a matching body was still handled.
C2_Witness ==
    \E r1, r2 \in Requests :
        /\ r1 < r2
        /\ reqs[r1].header = reqs[r2].header
        /\ BadSignature(reqs[r1]) /\ reqs[r1].status = 406
        /\ Did(reqs[r2], "kv_get") /\ ~reqs[r2].held
        /\ Did(reqs[r2], "handler")

(***************************************************************************)
(* C3                                                                      *)
(***************************************************************************)
\* C3: a request that arrives when the idempotency store holds an entry for
\* its header is answered 409 once its existence read is answered, whatever
\* its body; the read is the only thing it does: no signature check, no
\* handler, no store write.
C3_ReplayRejected ==
    \A r \in Requests :
        reqs[r].held /\ Did(reqs[r], "kv_get")
        => /\ Done(reqs[r])
           /\ reqs[r].outcome = "response" /\ reqs[r].status = 409
           /\ OpsOf(reqs[r]) = <<"kv_get", "respond">>

\* A replay whose body would fail the signature check was answered 409.
C3_Witness ==
    \E r \in Requests :
        /\ reqs[r].held /\ reqs[r].status = 409
        /\ ~SignatureMatches(reqs[r])

(***************************************************************************)
(* C4                                                                      *)
(***************************************************************************)
PutAttempts(rec) == Times_(rec, "kv_put") + Times_(rec, "kv_put_failed")

\* What the log of every request says about the idempotency record.
C4_RecordOrder ==
    \A r \in Requests :
        LET rec == reqs[r]
        IN  /\ PutAttempts(rec) <= 1
            /\ ~Did(rec, "handler_end") => PutAttempts(rec) = 0
            /\ Did(rec, "handler_end") /\ Done(rec) => PutAttempts(rec) = 1
            /\ rec.outcome = "response" /\ Did(rec, "handler")
                   => Did(rec, "kv_put")
            /\ Did(rec, "kv_put")
                   => /\ SignatureMatches(rec)
                      /\ At(rec, "handler_end") < At(rec, "kv_put")
                      /\ At(rec, "respond") = At(rec, "kv_put") + 1
                      /\ ValueOf(rec, "kv_put") = rec.body
                      /\ KvGet(WEBHOOKS_KV, rec.header) = rec.body

\* A request that arrives after the handler's response of a request with
\* the same header was returned finds the record in the store.
C4_LaterArrival ==
    Len(reqs') = Len(reqs) + 1
    => \A r \in Requests :
           /\ reqs[r].outcome = "response"
           /\ Did(reqs[r], "handler")
           /\ reqs[r].header = reqs'[Len(reqs')].header
           => reqs'[Len(reqs')].held

\* C4: the idempotency record of a header is written once per request that
\* was authenticated and whose handler completed (none otherwise; a put the
\* store rejects counts as the one attempt), after the handler completed
\* and right before the response is returned, with the raw body as value;
\* and a request with the same header that starts after that response was
\* returned is answered 409.
C4_RecordedOnce ==
    /\ [](C4_RecordOrder /\ C3_ReplayRejected)
    /\ [][C4_LaterArrival]_vars

\* A handled request wrote its record and a later request with the same
\* header was answered 409.
C4_Witness ==
    \E r1, r2 \in Requests :
        /\ r1 < r2
        /\ reqs[r1].header = reqs[r2].header
        /\ Did(reqs[r1], "kv_put") /\ reqs[r1].outcome = "response"
        /\ reqs[r2].held /\ reqs[r2].status = 409

(***************************************************************************)
(* C5                                                                      *)
(***************************************************************************)
\* C5: a request without the header, or whose header lacks a time=<digits>
\* or a sig1=<word characters> segment, is answered 422 and does nothing
\* else: no store read, no signature check, no handler, no store write.
C5_MalformedRejected ==
    \A r \in Requests :
        LacksSegment(reqs[r].header)
        => /\ Done(reqs[r])
           /\ reqs[r].outcome = "response" /\ reqs[r].status = 422
           /\ OpsOf(reqs[r]) = <<"respond">>

\* A request without header and one with a header lacking a segment were
\* both answered 422.
C5_Witness ==
    \E r1, r2 \in Requests :
        /\ reqs[r1].header = NULL /\ reqs[r1].status = 422
        /\ reqs[r2].header # NULL /\ LacksSegment(reqs[r2].header)
        /\ reqs[r2].status = 422

(***************************************************************************)
(* C6                                                                      *)
(***************************************************************************)
\* The well-shaped headers whose signature has a character that is not a
\* hexadecimal digit.
NonHexHeaders ==
    UNION {IF \E i \in 1..Len(SigOf(h)) :
                  SigOf(h)[i] \notin {HexChars[k] : k \in 1..16}
           THEN {h} ELSE {} : h \in WellShapedHeaders}

C7_ResponseDespiteFailedPut ==
    \A r \in Requests :
        Did(reqs[r], "kv_put_failed")
        => /\ reqs[r].outcome = "response"
           /\ reqs[r].status = reqs[r].handlerStatus

(***************************************************************************)
(* C8                                                                      *)
(***************************************************************************)
LatestOf(kv) == KvGet(kv, "latest")

\* The first n elements of a sequence.
FirstN(seq, n) == SubSeq(seq, 1, IF Len(seq) < n THEN Len(seq) ELSE n)

\* The completed write of "latest" by a request whose read of it is still
\* current.
C8_Step ==
    \A r \in Requests :
        /\ reqs[r].a = "put"
        /\ reqs'[r].a = "ok"
        /\ LatestOf(VIDEOS_KV) = ValueOf(reqs[r], "videos_get")
        => IF LatestOf(VIDEOS_KV) # NULL
           THEN /\ IsArrayText(LatestOf(VIDEOS_KV'))
                /\ ParseArray(LatestOf(VIDEOS_KV')) =
                       <<reqs[r].video>> \o ParseArray(LatestOf(VIDEOS_KV))
                /\ ~Did(reqs[r], "fetch_latest")
           ELSE /\ Times_(reqs[r], "fetch_latest") = 1
                /\ LatestOf(VIDEOS_KV') =
                       Stringify(ValueOf(reqs[r], "fetch_latest"))
                /\ ValueOf(reqs[r], "fetch_latest") # ErrorResult
                       => /\ IsArrayText(LatestOf(VIDEOS_KV'))
                          /\ ParseArray(LatestOf(VIDEOS_KV')) =
                                 ValueOf(reqs[r], "fetch_latest")
                          /\ \E c \in UpstreamCatalogs :
                                 ValueOf(reqs[r], "fetch_latest") =
                                     FirstN(SelectSeq(c, IsReady), 10)

\* C8: when the write of "latest" by updateVideos of a delivery with video
\* V completes, and "latest" is still what that updateVideos read: if the
\* entry existed, holding S, it now holds V followed by S; if there was no
\* entry, it now holds the result of the one upstream fetch the request
\* made, which is the first 10 ready videos of the provider, unchanged,
\* when the provider answered with its videos.
C8_CatalogUpdate == [][C8_Step]_vars

\* One delivery filled the empty cache with the fetch result [j, b], and a
\* later one with video a made it [a, j, b].
C8_Witness ==
    \E r1, r2 \in Requests :
        /\ reqs[r1].a = "ok" /\ reqs[r2].a = "ok"
        /\ ValueOf(reqs[r1], "videos_get") = NULL
        /\ ValueOf(reqs[r1], "fetch_latest") = <<"j", "b">>
        /\ ValueOf(reqs[r2], "videos_get") = StringifyArray(<<"j", "b">>)
        /\ reqs[r2].video = "a"
        /\ LatestOf(VIDEOS_KV) = StringifyArray(<<"a", "j", "b">>)

(***************************************************************************)
(* C9                                                                      *)
(***************************************************************************)
FeatureOf(kv) == KvGet(kv, "videos")

HasTag(v) == IsReady(v) /\ NameIncludesTag(v)

\* A delivery whose video has no feature tag makes no fetch for the feature
\* cache and no write of it.
C9_Untagged ==
    \A r \in Requests :
        Did(reqs[r], "handler") /\ reqs[r].route = "stream"
            /\ ~NameIncludesTag(reqs[r].video)
        => /\ reqs[r].b \in {"ok", "failed"}
           /\ ~Did(reqs[r], "fetch_jkot") /\ ~Did(reqs[r], "fetch_jkot_failed")
           /\ ~Did(reqs[r], "cache_put") /\ ~Did(reqs[r], "cache_put_failed")

\* The feature cache changes only by the write of a delivery whose video
\* has the tag, and that write leaves exactly the result of the request's
\* upstream query: the provider's ready videos with the tag, when the
\* provider answered with its videos.
C9_Step ==
    /\ CACHE_KV' # CACHE_KV
           => \E r \in Requests :
                  /\ reqs[r].b = "put" /\ reqs'[r].b = "ok"
                  /\ NameIncludesTag(reqs[r].video)
    /\ \A r \in Requests :
           reqs[r].b = "put" /\ reqs'[r].b = "ok"
           => /\ NameIncludesTag(reqs[r].video)
              /\ Times_(reqs[r], "fetch_jkot") = 1
              /\ FeatureOf(CACHE_KV') =
                     Stringify(ValueOf(reqs[r], "fetch_jkot"))
              /\ ValueOf(reqs[r], "fetch_jkot") # ErrorResult
                     => /\ IsArrayText(FeatureOf(CACHE_KV'))
                        /\ ParseArray(FeatureOf(CACHE_KV')) =
                               ValueOf(reqs[r], "fetch_jkot")
                        /\ \E c \in UpstreamCatalogs :
                               ValueOf(reqs[r], "fetch_jkot") =
                                   SelectSeq(c, HasTag)

\* C9: without the tag in meta.name the feature cache is left unchanged and
\* no upstream fetch is made for it; with the tag the entry is replaced by
\* exactly the result of the upstream query filtered by the tag with
\* status=ready.
C9_FeatureCache == []C9_Untagged /\ [][C9_Step]_vars

\* Two tagged deliveries whose upstream queries gave different results: the
\* feature cache holds the result of the one that wrote last.
C9_Witness ==
    \E r1, r2 \in Requests :
        /\ NameIncludesTag(reqs[r1].video) /\ Did(reqs[r1], "cache_put")
        /\ FeatureOf(CACHE_KV) = ValueOf(reqs[r1], "cache_put")
        /\ Did(reqs[r2], "cache_put")
        /\ ValueOf(reqs[r2], "cache_put") # ValueOf(reqs[r1], "cache_put")

(***************************************************************************)
(* C10                                                                     *)
(***************************************************************************)
Arrived(r) == r \in 1..Len(reqs)

Pending(p) == p \in {"get", "fetch", "put"}

\* Both updates were started by the call of the handler, and an update that
\* ended well made its store write (updateJKOT has none to make for a video
\* without the tag).
C10_Started ==
    \A r \in Requests :
        /\ reqs[r].a = "failed" \/ reqs[r].b = "failed"
               => reqs[r].a # "idle" /\ reqs[r].b # "idle"
        /\ reqs[r].a = "ok" => Did(reqs[r], "videos_put")
        /\ reqs[r].b = "ok" /\ NameIncludesTag(reqs[r].video)
               => Did(reqs[r], "cache_put")

OtherRoute(route) == IF route = "stream" THEN "auth0" ELSE "stream"

\* The delivery verifies under the secret of the route it was not sent to,
\* and not under the secret of its own route.
CrossSigned(rec) ==
    /\ rec.route \in Routes
    /\ WellShaped(rec.header)
    /\ <<OtherRoute(rec.route), rec.header, rec.body>> \in MatchingDeliveries
    /\ ~SignatureMatches(rec)

\* What the checks of withValidBody decide on, whichever the route.
Verdict(rec) ==
    <<WellShaped(rec.header),
      Did(rec, "kv_get"),
      Did(rec, "kv_get") /\ ValueOf(rec, "kv_get") # NULL,
      SignatureMatches(rec),
      IsJSON(rec.body)>>

\* The steps of a request up to the call of its handler.
RECURSIVE ChecksFrom(_, _)
ChecksFrom(rec, i) ==
    IF i > Len(rec.log) THEN <<>>
    ELSE IF rec.log[i].op = "handler" THEN <<"handler">>
    ELSE <<rec.log[i].op>> \o ChecksFrom(rec, i + 1)

Checks(rec) == ChecksFrom(rec, 1)

\* The status withValidBody answered with; 0 when it called the handler or
\* gave no Response.
Rejection(rec) ==
    IF Did(rec, "handler") \/ rec.outcome # "response" THEN 0 ELSE rec.status

\* C11 as stated: a delivery signed with the secret of the other route is
\* answered 406.
C11_Original ==
    \A r \in Requests :
        CrossSigned(reqs[r]) /\ reqs[r].outcome = "response"
            => reqs[r].status = 406

\* C11: a handler is invoked only for a request whose signature verifies
\* under the secret of its own route; a delivery signed with the secret of
\* the other route invokes no handler, writes nothing and is answered 406,
\* or 409 when the idempotency store already holds its header; and two
\* requests on different routes for which the checks decide alike go through
\* the same steps and get the same status.
C11_RouteSecrets ==
    /\ \A r \in Requests :
           /\ Did(reqs[r], "handler") => SignatureMatches(reqs[r])
           /\ CrossSigned(reqs[r])
                  => /\ ~Did(reqs[r], "handler")
                     /\ WroteNothing(reqs[r])
                     /\ reqs[r].outcome = "response"
                            => reqs[r].status =
                                   (IF ValueOf(reqs[r], "kv_get") # NULL
                                    THEN 409 ELSE 406)
    /\ \A r1, r2 \in Requests :
           /\ reqs[r1].route = "stream" /\ reqs[r2].route = "auth0"
           /\ reqs[r1].pc # "kv_get" /\ reqs[r2].pc # "kv_get"
           /\ Verdict(reqs[r1]) = Verdict(reqs[r2])
           => /\ Checks(reqs[r1]) = Checks(reqs[r2])
              /\ Rejection(reqs[r1]) = Rejection(reqs[r2])

\* Each route answered 406 to a delivery signed with the secret of the
\* other route.
C11_Witness ==
    \E r1, r2 \in Requests :
        /\ reqs[r1].route = "stream" /\ reqs[r2].route = "auth0"
        /\ CrossSigned(reqs[r1]) /\ CrossSigned(reqs[r2])
        /\ reqs[r1].status = 406 /\ reqs[r2].status = 406
        /\ OpsOf(reqs[r1]) = <<"kv_get", "checkSignature", "respond">>
        /\ OpsOf(reqs[r2]) = OpsOf(reqs[r1])

(***************************************************************************)
(* C12                                                                     *)
(***************************************************************************)
\* The requests of the provisioning route whose handler got the answer of a
\* storage actor.
Forwarded == {r \in Requests : reqs[r].route = "auth0"
                                   /\ Did(reqs[r], "handler_end")}

\* The POST /new requests that carry the identifier request r was given.
SentFor(r) ==
    {i \in 1..Len(actors) :
         IdToString(actors[i].id) = ValueOf(reqs[r], "handler_end")}

\* C12: an accepted delivery of the provisioning route is given one
\* identifier no other delivery was given, exactly one POST /new goes to the
\* actor of that identifier with the identifier as slug and the delivered
\* user, and the handler returns what the actor answered; no other request
\* reaches an actor.
C12_Provisioning ==
    /\ \A i, j \in 1..Len(actors) :
           actors[i].id = actors[j].id => i = j
    /\ \A i \in 1..Len(actors) : actors[i].id < nextId
    /\ Len(actors) = Cardinality(Forwarded)
    /\ \A r \in Requests :
           /\ reqs[r].route = "auth0" /\ Did(reqs[r], "handler")
                  /\ Done(reqs[r]) /\ ~Did(reqs[r], "forward_failed")
                  => r \in Forwarded
           /\ r \in Forwarded
                  => /\ Cardinality(SentFor(r)) = 1
                     /\ \A i \in SentFor(r) :
                            /\ actors[i].method = "POST"
                            /\ actors[i].path = "/new"
                            /\ actors[i].body =
                                   [slug |-> IdToString(actors[i].id),
                                    user |-> ParseObject(reqs[r].body)]
                            /\ reqs[r].handlerStatus = actors[i].status
                            /\ reqs[r].outcome = "response"
                                   => reqs[r].status = actors[i].status

\* Two deliveries were provisioned; the actor of the first answered 500 and
\* the actor of the second 200, and each answer went back to its caller.
C12_Witness ==
    \E r1, r2 \in Forwarded :
        /\ \E i \in SentFor(r1) : actors[i].status = 500
        /\ \E i \in SentFor(r2) : actors[i].status = 200
        /\ reqs[r1].outcome = "response" /\ reqs[r1].status = 500
        /\ reqs[r2].outcome = "response" /\ reqs[r2].status = 200

(***************************************************************************)
(* C13                                                                     *)
(***************************************************************************)
\* C13: a request whose method and path match neither route is answered
\* with a not-found response, and no validation step, handler or store
\* operation runs for it.
C13_NotFound ==
    \A r \in Requests :
        reqs[r].route \notin Routes
            => /\ reqs[r].outcome = "response"
               /\ reqs[r].status = 404
               /\ ~Did(reqs[r], "kv_get")
               /\ ~Did(reqs[r], "checkSignature")
               /\ ~Did(reqs[r], "handler")
               /\ WroteNothing(reqs[r])

(***************************************************************************)
(* C14                                                                     *)
(***************************************************************************)
\* A correctly signed, non-replayed request whose body is not JSON, after
\* its signature was verified.
Unparsable(rec) ==
    /\ rec.route \in Routes
    /\ WellShaped(rec.header)
    /\ SignatureMatches(rec)
    /\ ~IsJSON(rec.body)
    /\ Did(rec, "checkSignature")

\* C14: a correctly signed, non-replayed request whose body is not valid
\* JSON is answered with a status of the 400 class, its handler is not
\* invoked and it writes to none of the three stores.
C14_ParseFailure ==
    \A r \in Requests :
        Unparsable(reqs[r])
            => /\ reqs[r].outcome = "response"
               /\ reqs[r].status \in 400..499
               /\ ~Did(reqs[r], "handler")
               /\ WroteNothing(reqs[r])

(***************************************************************************)
(* C15                                                                     *)
(***************************************************************************)
\* The provider or the storage actor could not be reached.
Unreachable(rec) ==
    \/ Did(rec, "fetch_latest_failed")
    \/ Did(rec, "fetch_jkot_failed")
    \/ Did(rec, "forward_failed")

\* The provider answered a fetch of the handler with an error.
ErrorAnswered(rec) ==
    \/ Did(rec, "fetch_latest") /\ ValueOf(rec, "fetch_latest") = ErrorResult
    \/ Did(rec, "fetch_jkot") /\ ValueOf(rec, "fetch_jkot") = ErrorResult

\* The request ended with an exception no code of the worker catches, which
\* the runtime reports as a server error, or with a response of the 500
\* class.
ServerError(rec) ==
    \/ rec.outcome = "exception"
    \/ rec.outcome = "response" /\ rec.status \in 500..599

\* The calls a request made to the provider for the catalog cache, to the
\* provider for the feature cache, and to a storage actor.
CallsOf(rec) ==
    <<Times_(rec, "fetch_latest") + Times_(rec, "fetch_latest_failed"),
      Times_(rec, "fetch_jkot") + Times_(rec, "fetch_jkot_failed"),
      Times_(rec, "handler_end") + Times_(rec, "forward_failed")>>

\* C15: a request whose handler had a collaborator call fail ends with a
\* server error, and made that call once.
C15_FailurePropagates ==
    \A r \in Requests :
        Unreachable(reqs[r]) \/ ErrorAnswered(reqs[r])
            => /\ Done(reqs[r]) => ServerError(reqs[r])
               /\ \A i \in 1..3 : CallsOf(reqs[r])[i] <= 1

(***************************************************************************)
(* C16                                                                     *)
(***************************************************************************)
\* Two accepted deliveries of one body to POST /stream under two headers.
Redelivered(r1, r2) ==
    /\ r1 # r2
    /\ reqs[r1].route = "stream" /\ reqs[r2].route = "stream"
    /\ reqs[r1].body = reqs[r2].body
    /\ reqs[r1].header # reqs[r2].header
    /\ SignatureMatches(reqs[r1]) /\ SignatureMatches(reqs[r2])

\* Another request with the very header of request r wrote its record.
RecordedByOther(r) ==
    \E o \in Requests :
        /\ o # r
        /\ reqs[o].header = reqs[r].header
        /\ Did(reqs[o], "kv_put")

\* C16: a request is rejected as a replay only when a request with the same
\* header text wrote its record, whatever the bodies; so of two correctly
\* signed deliveries of one body under two headers each passes the replay
\* check and has the handler invoked, and when the second reads the catalog
\* cache the first wrote, having found a cache S, it writes V, V, S.
C16_HeaderTextOnly ==
    /\ \A r \in Requests :
           /\ reqs[r].status = 409 => RecordedByOther(r)
           /\ reqs[r].route \in Routes /\ SignatureMatches(reqs[r])
                  /\ IsJSON(reqs[r].body) /\ Did(reqs[r], "kv_get")
                  /\ ~RecordedByOther(r)
                  => Did(reqs[r], "handler")
    /\ \A r1, r2 \in Requests :
           /\ Redelivered(r1, r2)
           /\ Did(reqs[r1], "videos_put") /\ Did(reqs[r2], "videos_put")
           /\ IsArrayText(ValueOf(reqs[r1], "videos_get"))
           /\ ValueOf(reqs[r2], "videos_get") = ValueOf(reqs[r1], "videos_put")
           => ValueOf(reqs[r2], "videos_put") =
                  StringifyArray(<<reqs[r1].video, reqs[r1].video>>
                      \o ParseArray(ValueOf(reqs[r1], "videos_get")))

\* The video a was delivered under time=1 and again under time=2, both
\* deliveries were answered 200, and the catalog cache that held b holds
\* a, a, b.
C16_Witness ==
    \E r1, r2 \in Requests :
        /\ Redelivered(r1, r2)
        /\ reqs[r1].video = "a"
        /\ TimeOf(reqs[r1].header) = <<"1">>
        /\ TimeOf(reqs[r2].header) = <<"2">>
        /\ reqs[r1].status = 200 /\ reqs[r2].status = 200
        /\ ValueOf(reqs[r1], "videos_get") = EarlierLatest
        /\ KvGet(VIDEOS_KV, "latest") = StringifyArray(<<"a", "a", "b">>)

(***************************************************************************)
(* C17                                                                     *)
(***************************************************************************)
\* C17: every record of the catalog cache is a video in the ready state.
C17_LatestReady ==
    IsArrayText(LatestOf(VIDEOS_KV))
        => \A i \in 1..Len(ParseArray(LatestOf(VIDEOS_KV))) :
               IsReady(ParseArray(LatestOf(VIDEOS_KV))[i])

(***************************************************************************)
(* C18                                                                     *)
(***************************************************************************)
\* Two deliveries of different videos to POST /stream under different
\* headers, both answered 200, each of which found a catalog cache and
\* wrote it, and no other request wrote it.
BothMerged(r1, r2) ==
    /\ r1 # r2
    /\ reqs[r1].route = "stream" /\ reqs[r2].route = "stream"
    /\ reqs[r1].header # reqs[r2].header
    /\ reqs[r1].video # reqs[r2].video
    /\ reqs[r1].outcome = "response" /\ reqs[r1].status = 200
    /\ reqs[r2].outcome = "response" /\ reqs[r2].status = 200
    /\ IsArrayText(ValueOf(reqs[r1], "videos_get"))
    /\ IsArrayText(ValueOf(reqs[r2], "videos_get"))
    /\ \A o \in Requests \ {r1, r2} : ~Did(reqs[o], "videos_put")

\* Both requests read the catalog cache before either wrote it.
ReadTogether(r1, r2) ==
    ValueOf(reqs[r1], "videos_get") = ValueOf(reqs[r2], "videos_get")

\* C18 as stated: the catalog cache two such deliveries leave holds both
\* videos in front of what it held before.  (It is stated of every two
\* such deliveries; the states that violate it are those of two deliveries
\* that read the cache together.)
C18_NoLostUpdate ==
    \A r1, r2 \in Requests :
        BothMerged(r1, r2)
            => \E s \in {ValueOf(reqs[r1], "videos_get"),
                         ValueOf(reqs[r2], "videos_get")} :
                   LatestOf(VIDEOS_KV) \in
                       {StringifyArray(<<reqs[r1].video, reqs[r2].video>>
                                           \o ParseArray(s)),
                        StringifyArray(<<reqs[r2].video, reqs[r1].video>>
                                           \o ParseArray(s))}

\* C18: each of two such deliveries writes its video in front of what it
\* read.  When the second read what the first wrote, the cache they leave
\* holds both videos in front of what it held before; when both read the
\* cache before either wrote it, the cache they leave is the write of one
\* of them, and holds the video of that one only.
C18_Merge ==
    \A r1, r2 \in Requests :
        BothMerged(r1, r2)
            => /\ \A r \in {r1, r2} :
                      ValueOf(reqs[r], "videos_put") =
                          StringifyArray(<<reqs[r].video>> \o
                              ParseArray(ValueOf(reqs[r], "videos_get")))
               /\ LatestOf(VIDEOS_KV) \in {ValueOf(reqs[r1], "videos_put"),
                                           ValueOf(reqs[r2], "videos_put")}
               /\ \/ ReadTogether(r1, r2)
                  \/ /\ ValueOf(reqs[r2], "videos_get") =
                            ValueOf(reqs[r1], "videos_put")
                     /\ LatestOf(VIDEOS_KV) = ValueOf(reqs[r2], "videos_put")
                  \/ /\ ValueOf(reqs[r1], "videos_get") =
                            ValueOf(reqs[r2], "videos_put")
                     /\ LatestOf(VIDEOS_KV) = ValueOf(reqs[r1], "videos_put")

\* Deliveries of the videos a and j both read the cache [b], both were
\* answered 200, and the cache holds j, b: the update with a is lost.
C18_Witness ==
    \E r1, r2 \in Requests :
        /\ BothMerged(r1, r2)
        /\ reqs[r1].video = "a" /\ reqs[r2].video = "j"
        /\ ReadTogether(r1, r2)
        /\ ValueOf(reqs[r1], "videos_get") = EarlierLatest
        /\ LatestOf(VIDEOS_KV) = StringifyArray(<<"j", "b">>)

(***************************************************************************)
(* C19                                                                     *)
(***************************************************************************)
\* Every entry of the idempotency store is a well-shaped header with a
\* body its sig1 signs under the secret of one of the routes, written by a
\* request that carried both and whose handler had returned; and no request
\* that was rejected wrote an entry.
C19_Entries ==
    /\ \A k \in DOMAIN WEBHOOKS_KV :
           /\ WellShaped(k)
           /\ \E route \in Routes :
                  <<route, k, WEBHOOKS_KV[k]>> \in MatchingDeliveries
           /\ \E r \in Requests :
                  /\ reqs[r].header = k /\ reqs[r].body = WEBHOOKS_KV[k]
                  /\ SignatureMatches(reqs[r])
                  /\ Did(reqs[r], "handler_end")
                  /\ Did(reqs[r], "kv_put")
    /\ \A r \in Requests :
           \/ ~WellShaped(reqs[r].header)
           \/ ~SignatureMatches(reqs[r])
           \/ reqs[r].status \in {422, 409, 406}
           => ~Did(reqs[r], "kv_put")

\* An entry of the idempotency store stays as it is, and the store changes
\* only by the record of a request whose handler returned.
C19_Step ==
    /\ \A k \in DOMAIN WEBHOOKS_KV :
           k \in DOMAIN WEBHOOKS_KV' /\ WEBHOOKS_KV'[k] = WEBHOOKS_KV[k]
    /\ WEBHOOKS_KV' # WEBHOOKS_KV
           => \E r \in Requests :
                  /\ reqs[r].pc = "kv_put"
                  /\ SignatureMatches(reqs[r])
                  /\ WEBHOOKS_KV' = KvPut(WEBHOOKS_KV, reqs[r].header,
                                          reqs[r].body)

\* C19: every key of the idempotency store is a header of the shape
\* time=<digits>,sig1=<word characters> whose value is a body for which
\* sig1 is the HMAC of <time>.<value> under the secret of one of the two
\* routes; a key once written never changes its value; and requests that
\* are unauthenticated, malformed or replayed never create or alter an
\* entry.
C19_StoreEntries == []C19_Entries /\ [][C19_Step]_vars

\* A header was recorded with its body; a request that reused the header
\* with another body was answered 409, and the entry is as it was written.
C19_Witness ==
    \E r1, r2 \in Requests :
        /\ Did(reqs[r1], "kv_put")
        /\ reqs[r2].header = reqs[r1].header
        /\ reqs[r2].body # reqs[r1].body
        /\ reqs[r2].status = 409
        /\ WEBHOOKS_KV[reqs[r1].header] = reqs[r1].body

(***************************************************************************)
(* C20                                                                     *)
(***************************************************************************)
\* The handler of the request was invoked and threw: one of the updates of
\* the stream handler was rejected, or the forward to the storage actor.
HandlerThrew(rec) ==
    /\ Did(rec, "handler")
    /\ rec.a = "failed" \/ rec.b = "failed" \/ Did(rec, "forward_failed")

\* No request but r wrote the record of the header of r.
NotRecorded(r) ==
    \A o \in Requests \ {r} :
        reqs[o].header = reqs[r].header => ~Did(reqs[o], "kv_put")

\* C20: a request whose handler threw ended with the exception and made no
\* write to the idempotency store, and leaves no entry for its header; a
\* second delivery of the same header and body to the same route, the
\* header recorded by no other request, arrives to a store without the
\* header, is not answered 409, and once its read of the store completed
\* its signature is verified and its handler invoked.
C20_HandledAgain ==
    /\ \A r \in Requests :
           HandlerThrew(reqs[r])
               => /\ reqs[r].outcome = "exception"
                  /\ ~Did(reqs[r], "kv_put")
                  /\ ~Did(reqs[r], "kv_put_failed")
                  /\ NotRecorded(r) => reqs[r].header \notin DOMAIN WEBHOOKS_KV
    /\ \A r1, r2 \in Requests :
           /\ r1 # r2
           /\ HandlerThrew(reqs[r1])
           /\ reqs[r2].route = reqs[r1].route
           /\ reqs[r2].header = reqs[r1].header
           /\ reqs[r2].body = reqs[r1].body
           /\ NotRecorded(r2)
           => /\ ~reqs[r2].held
              /\ reqs[r2].status # 409
              /\ Did(reqs[r2], "kv_get")
                     => /\ ValueOf(reqs[r2], "kv_get") = NULL
                        /\ Did(reqs[r2], "checkSignature")
                        /\ Did(reqs[r2], "handler")

\* The rehydration fetch of a delivery could not be made and its handler
\* threw; the second delivery of the same header and body was handled,
\* answered 200 and recorded.
C20_Witness ==
    \E r1, r2 \in Requests :
        /\ r1 < r2
        /\ reqs[r2].route = reqs[r1].route
        /\ reqs[r2].header = reqs[r1].header
        /\ reqs[r2].body = reqs[r1].body
        /\ HandlerThrew(reqs[r1])
        /\ Did(reqs[r1], "fetch_latest_failed")
        /\ Did(reqs[r2], "handler")
        /\ reqs[r2].status = 200
        /\ Did(reqs[r2], "kv_put")
        /\ KvGet(WEBHOOKS_KV, reqs[r1].header) = reqs[r2].body

====
